---- MODULE Spec2Model ----
(***************************************************************************)
(* Model of gten_translator.py: the aligned-dubbing pipeline               *)
(* spanish_to_english_aligned_with_subs and the SRT timestamp formatter    *)
(* ms_to_srt_timestamp.                                                    *)
(*                                                                         *)
(* Audio is modelled at the granularity the code works at: one sample per  *)
(* millisecond, a clip being a sequence of 16-bit samples, silence being   *)
(* the sample 0.  Strings are sequences of Unicode code points.            *)
(***************************************************************************)
EXTENDS Integers, Sequences, FiniteSets, TLC

(* ---------------------------- bounds ----------------------------------- *)
\* most segments the recognizer returns in one run
MaxSegs == 2
\* largest segment time, in half-milliseconds (seconds = value / 2000)
MaxTimeH == 4
\* longest synthesized clip, in ms
MaxClip == 2
\* longest original recording, in ms
MaxTrack == 2
\* loudest sample of a synthesized clip
ClipPeak == 30000
\* largest hour count given to the timestamp formatter
MaxHours == 123

(* ---------------------------- helpers ---------------------------------- *)
Max(a, b) == IF a >= b THEN a ELSE b

Min(a, b) == IF a <= b THEN a ELSE b

\* width of a pydub sample (16-bit signed): audioop.add clamps to it
SampleMax == 2^15 - 1

SampleMin == 0 - 2^15

\* ord(c) of the ASCII characters the code writes or the inputs use
ord == ("0" :> 48) @@ ("1" :> 49) @@ ("2" :> 50) @@ ("3" :> 51) @@ ("4" :> 52)
         @@ ("5" :> 53) @@ ("6" :> 54) @@ ("7" :> 55) @@ ("8" :> 56)
         @@ ("9" :> 57) @@ (":" :> 58) @@ ("," :> 44) @@ ("-" :> 45)
         @@ (">" :> 62) @@ (" " :> 32) @@ ("\n" :> 10) @@ ("\r" :> 13)
         @@ ("\t" :> 9) @@ ("\f" :> 12) @@ ("\"" :> 34) @@ ("'" :> 39)
         @@ ("a" :> 97) @@ ("b" :> 98) @@ ("h" :> 104)

\* the string of a sequence of ASCII characters
Str(chars) == [k \in DOMAIN chars |-> ord[chars[k]]]

DigitChars == Str(<<"0", "1", "2", "3", "4", "5", "6", "7", "8", "9">>)

RECURSIVE Digits(_)
\* decimal digits of n >= 0, most significant first (format spec "d")
Digits(n) == IF n < 10 THEN <<DigitChars[n + 1]>>
             ELSE Digits(n \div 10) \o <<DigitChars[(n % 10) + 1]>>

RECURSIVE ZeroPad(_, _)
\* format spec "0w": left-pad with zeros up to width w, never truncate
ZeroPad(s, w) == IF Len(s) >= w THEN s ELSE ZeroPad(Str(<<"0">>) \o s, w)

\* format spec "0wd": the sign counts in the width
FormatD(n, w) == IF n < 0 THEN Str(<<"-">>) \o ZeroPad(Digits(0 - n), w - 1)
                 ELSE ZeroPad(Digits(n), w)

\* ms_to_srt_timestamp with the minutes taken without the hour remainder
ms_to_srt_timestamp_NoHourMod(ms) ==
    LET hours == ms \div 3600000
        minutes == ms \div 60000
        seconds == (ms % 60000) \div 1000
        milliseconds == ms % 1000
    IN  FormatD(hours, 2) \o Str(<<":">>) \o FormatD(minutes, 2)
          \o Str(<<":">>) \o FormatD(seconds, 2) \o Str(<<",">>)
          \o FormatD(milliseconds, 3)

ms_to_srt_timestamp(ms) ==
    LET hours == ms \div 3600000
        minutes == (ms % 3600000) \div 60000
        seconds == (ms % 60000) \div 1000
        milliseconds == ms % 1000
    IN  FormatD(hours, 2) \o Str(<<":">>) \o FormatD(minutes, 2)
          \o Str(<<":">>) \o FormatD(seconds, 2) \o Str(<<",">>)
          \o FormatD(milliseconds, 3)

\* the characters str.strip() removes: those str.isspace() holds for
\* (TAB LF VT FF CR, FS GS RS US, SPACE, NEL, NBSP, OGHAM SPACE MARK,
\* EN QUAD..HAIR SPACE, LINE and PARAGRAPH SEPARATOR, NARROW NBSP, MEDIUM
\* MATHEMATICAL SPACE, IDEOGRAPHIC SPACE)
Whitespace == (9..13) \cup (28..32) \cup {133, 160, 5760} \cup (8192..8202)
                \cup {8232, 8233, 8239, 8287, 12288}

RECURSIVE LStrip(_, _)
LStrip(s, chars) == IF s # <<>> /\ Head(s) \in chars
                    THEN LStrip(Tail(s), chars) ELSE s

RECURSIVE RStrip(_, _)
RStrip(s, chars) == IF s # <<>> /\ s[Len(s)] \in chars
                    THEN RStrip(SubSeq(s, 1, Len(s) - 1), chars) ELSE s

\* str.strip(chars)
StripChars(s, chars) == RStrip(LStrip(s, chars), chars)

\* str.strip()
strip(s) == StripChars(s, Whitespace)

\* input(...).strip().strip('"').strip("'")
CleanPath(raw) ==
    StripChars(StripChars(strip(raw), {ord["\""]}), {ord["'"]})

RECURSIVE Log2(_)
\* floor(log2(k)), k >= 1
Log2(k) == IF k < 2 THEN 0 ELSE 1 + Log2(k \div 2)

RECURSIVE Pow2Mod(_, _)
\* 2^s modulo m
Pow2Mod(s, m) == IF s = 0 THEN 1 % m ELSE (2 * Pow2Mod(s - 1, m)) % m

RECURSIVE ShiftUp(_, _)
\* the least t' >= t with k * 2^t' >= 1000
ShiftUp(k, t) == IF k * 2^t >= 1000 THEN t ELSE ShiftUp(k, t + 1)

RECURSIVE ShiftDown(_, _)
\* the least j' >= j with k < 2000 * 2^j'
ShiftDown(k, j) == IF k < 2000 * 2^j THEN j ELSE ShiftDown(k, j + 1)

\* int(x * 1000) for the double x nearest to k / 1000, k >= 1.  With t such
\* that 1000 <= k * 2^t < 2000, x = m * 2^-(t+52) for the integer m nearest
\* to k * 2^(t+52) / 1000 (ties to even), so 1000 * m = k * 2^(t+52) + d with
\* |d| <= 500.  The product is rounded to the doubles around k, which are
\* 2 * half apart above k (half apart below k when k is a power of two), in
\* units of 2^-(t+52): it falls below k, and int() gives k - 1, exactly when
\* -d exceeds the half-spacing below k.
MillisOfThousandths(k) ==
    LET t == IF k < 1000 THEN ShiftUp(k, 0) ELSE 0 - ShiftDown(k, 0)
        e == Log2(k)
        half == 2^(t + e - 1)
        r2 == ((k % 2000) * Pow2Mod(t + 52, 2000)) % 2000
        r == r2 % 1000
        d == IF r < 500 THEN 0 - r
             ELSE IF r > 500 THEN 1000 - r
             ELSE IF r2 = 500 THEN 0 - 500 ELSE 500
        below == IF k = 2^e THEN half \div 2 ELSE half
    IN  IF 0 - d > below THEN k - 1 ELSE k

RECURSIVE SecToMs(_)
\* int(seconds * 1000) in double arithmetic, the seconds given as a count h
\* of half-milliseconds (seconds = h / 2000); int() truncates toward zero
SecToMs(h) == IF h < 0 THEN 0 - SecToMs(0 - h)
              ELSE IF h % 2 = 1 \/ h = 0 THEN h \div 2
              ELSE MillisOfThousandths(h \div 2)

\* AudioSegment.silent(duration=d)
silent(d) == [j \in 1..d |-> 0]

\* seg[:n]
FirstMs(clip, n) == SubSeq(clip, 1, Min(n, Len(clip)))

\* seg[n:] taken instead of seg[:n]
fit_KeepTail(clip, target_duration) ==
    IF Len(clip) > target_duration
    THEN SubSeq(clip, Len(clip) - target_duration + 1, Len(clip))
    ELSE IF Len(clip) < target_duration
         THEN clip \o silent(target_duration - Len(clip))
         ELSE clip

\* lines 182-185: align the clip to the target duration
fit(clip, target_duration) ==
    IF Len(clip) > target_duration
    THEN FirstMs(clip, target_duration)
    ELSE IF Len(clip) < target_duration
         THEN clip \o silent(target_duration - Len(clip))
         ELSE clip

\* audioop.add on 16-bit samples: sum, clamped to the sample width
add(a, b) == Max(SampleMin, Min(SampleMax, a + b))

\* an overlay that replaces the samples under the clip
overlay_Replace(track, seg, position) ==
    LET remaining == Max(0, Len(track) - position)
        seg2 == FirstMs(seg, remaining)
    IN  [p \in 1..Len(track) |->
            IF p > position /\ p <= position + Len(seg2)
            THEN seg2[p - position]
            ELSE track[p]]

\* an overlay that starts the clip one millisecond late
overlay_Shifted(track, seg, position) ==
    LET remaining == Max(0, Len(track) - (position + 1))
        seg2 == FirstMs(seg, remaining)
    IN  [p \in 1..Len(track) |->
            IF p > position + 1 /\ p <= position + 1 + Len(seg2)
            THEN add(track[p], seg2[p - position - 1])
            ELSE track[p]]

\* AudioSegment.overlay(seg, position): the track keeps its length, the clip
\* is cut at the track's end and mixed into the samples under it
overlay(track, seg, position) ==
    LET remaining == Max(0, Len(track) - position)
        seg2 == FirstMs(seg, remaining)
    IN  [p \in 1..Len(track) |->
            IF p > position /\ p <= position + Len(seg2)
            THEN add(track[p], seg2[p - position])
            ELSE track[p]]

\* target_duration = max(1, end_ms - start_ms)
TargetDuration(start_ms, end_ms) == Max(1, end_ms - start_ms)

(* ---------------------------- input domains ---------------------------- *)
\* segment texts: none, white space only (NBSP, CR), and "h" between an
\* IDEOGRAPHIC SPACE and a NEL
Texts == {<<>>, <<160, 13>>, <<12288, 104, 133>>}

\* the segments the recognizer may return: the code checks neither their
\* order nor that a segment ends after it starts
Segments == [start : 0..MaxTimeH, end : 0..MaxTimeH, text : Texts]

\* a clip of n ms with distinct, decreasing samples
Clip(n) == [j \in 1..n |-> ClipPeak \div j]

\* the shortest and the longest clip the synthesizer may return
SynthClips == {Clip(n) : n \in {1, MaxClip}}

TrackLens == (MaxTrack - 1)..MaxTrack

HourSamples == {0, 9, 10, 99, 100, MaxHours}

FmtInputs == {h * 3600000 + m * 60000 + s * 1000 + x :
                h \in HourSamples, m \in {0, 7, 59}, s \in {0, 10, 59},
                x \in {0, 5, 99, 999}}

\* what the user may type at the path prompt, and the files that exist
RawPaths == {<<>>, Str(<<" ", "\f">>), Str(<<" ", "'", "a", "'", "\r">>),
             Str(<<"\"", "b", "\"">>)}

ExistingFiles == {Str(<<"a">>)}

(* ---------------------------- subtitle entries ------------------------- *)
\* the entry with the loop position as its number
SrtEntry_EnumIndex(srt, pos, start_ms, end_ms, text) ==
    Digits(pos + 1) \o Str(<<"\n">>) \o ms_to_srt_timestamp(start_ms)
      \o Str(<<" ", "-", "-", ">", " ">>) \o ms_to_srt_timestamp(end_ms)
      \o Str(<<"\n">>) \o text \o Str(<<"\n">>)

\* the entry with its end stamped from the start
SrtEntry_EndFromStart(srt, pos, start_ms, end_ms, text) ==
    Digits(Len(srt) + 1) \o Str(<<"\n">>) \o ms_to_srt_timestamp(start_ms)
      \o Str(<<" ", "-", "-", ">", " ">>) \o ms_to_srt_timestamp(start_ms)
      \o Str(<<"\n">>) \o text \o Str(<<"\n">>)

\* f"{len(srt_lines)+1}\n{start_srt} --> {end_srt}\n{english_text}\n"
\* (pos is the enumerate() position of the segment, which the code ignores)
SrtEntry(srt, pos, start_ms, end_ms, text) ==
    Digits(Len(srt) + 1) \o Str(<<"\n">>) \o ms_to_srt_timestamp(start_ms)
      \o Str(<<" ", "-", "-", ">", " ">>) \o ms_to_srt_timestamp(end_ms)
      \o Str(<<"\n">>) \o text \o Str(<<"\n">>)

RECURSIVE Join(_, _)
\* sep.join(lines)
Join(lines, sep) == IF lines = <<>> THEN <<>>
                    ELSE IF Len(lines) = 1 THEN lines[1]
                    ELSE lines[1] \o sep \o Join(Tail(lines), sep)

(* ---------------------------- temporary files -------------------------- *)
Range(f) == {f[k] : k \in DOMAIN f}

\* The removals of the cleanup can fail (a file or the directory the
\* process may not remove); the code swallows the error.  stuck has the
\* shape of the directory, [dir, files]: the artifacts that cannot be removed.
NothingStuck == [dir |-> FALSE, files |-> {}]

\* what may be stuck when the cleanup of directory tmp begins: any of its
\* files, and the directory itself (always, when a file in it is stuck)
StuckChoices(tmp) == {s \in [dir : BOOLEAN, files : SUBSET tmp.files] :
                         s.files # {} => s.dir}

\* for p in created_temp_files: safe_remove(p) -- a file whose os.remove
\* raises stays, the error is dropped
safe_remove_all(tmp, created, stuck) ==
    [dir |-> tmp.dir, files |-> tmp.files \ (Range(created) \ stuck.files)]

\* try: shutil.rmtree(temp_dir) except Exception: pass -- the outcomes.
\* rmtree unlinks the entries in directory order and raises at the first it
\* cannot remove: that entry, every other stuck entry and any entry not yet
\* visited stay, with the directory; with no stuck entry the directory is
\* emptied and removed, unless its own rmdir fails
rmtree(tmp, stuck) ==
    IF ~tmp.dir THEN {tmp}
    ELSE IF tmp.files \cap stuck.files # {}
    THEN {[dir |-> TRUE, files |-> left] :
             left \in {x \in SUBSET tmp.files :
                          tmp.files \cap stuck.files \subseteq x}}
    ELSE {[dir |-> stuck.dir, files |-> {}]}

\* the finally block, lines 206-213: the outcomes
Cleanup(tmp, created, stuck) ==
    rmtree(safe_remove_all(tmp, created, stuck), stuck)

(* ---------------------------- state ------------------------------------ *)
VARIABLES
    pc,                  \* position in spanish_to_english_aligned_with_subs
    fail_reason,         \* the error the run hit, "none" while there is none
    input_mp3,           \* the cleaned input path
    num_segments,        \* len(result["segments"])
    i,                   \* segments the loop has consumed
    final_audio,         \* the output track
    srt_lines,           \* the subtitle entries
    created_temp_files,  \* segment files recorded for removal
    tmp,                 \* the temp directory on disk: [dir, files]
    stuck,               \* what the cleanup could not remove: [dir, files]
    out_mp3,             \* english_aligned_output.mp3: [state, data]
    out_srt,             \* english_subtitles.srt: [state, data]
    last,                \* history: what the latest loop iteration did
    placed,              \* history: the segments overlaid, in order
    counts,              \* history: counters over the run
    fmt_in,              \* argument given to ms_to_srt_timestamp
    fmt_out              \* its result

vars == <<pc, fail_reason, input_mp3, num_segments, i, final_audio, srt_lines,
          created_temp_files, tmp, stuck, out_mp3, out_srt, last, placed,
          counts, fmt_in, fmt_out>>

NoFile == [state |-> "absent", data |-> <<>>]

NoIteration == [kind |-> "none", start_ms |-> 0, end_ms |-> 0,
                target_duration |-> 0, raw |-> <<>>, seg_audio |-> <<>>,
                before |-> <<>>, srt_before |-> <<>>]

NoCounts == [empty |-> 0, nonempty |-> 0, failed |-> 0, made |-> 0,
             audio_exports |-> 0, srt_writes |-> 0]

Skipped(kind, track, srt) ==
    [NoIteration EXCEPT !.kind = kind, !.before = track, !.srt_before = srt]

\* an iteration that an uncaught error ended
Raised(track, srt) == Skipped("raised", track, srt)

Init ==
    /\ pc = "check_ffmpeg"
    /\ fail_reason = "none"
    /\ input_mp3 = <<>>
    /\ num_segments = 0
    /\ i = 0
    /\ final_audio = <<>>
    /\ srt_lines = <<>>
    /\ created_temp_files = <<>>
    /\ tmp = [dir |-> FALSE, files |-> {}]
    /\ stuck = NothingStuck
    /\ out_mp3 = NoFile
    /\ out_srt = NoFile
    /\ last = NoIteration
    /\ placed = <<>>
    /\ counts = NoCounts
    /\ fmt_in = 0
    /\ fmt_out = <<>>

\* a return, sys.exit or uncaught error before line 146: nothing else
\* changes
Abort(reason) ==
    /\ pc' = "failed"
    /\ fail_reason' = reason
    /\ UNCHANGED <<input_mp3, num_segments, i, final_audio, srt_lines,
                   created_temp_files, tmp, stuck, out_mp3, out_srt, last,
                   placed, counts, fmt_in, fmt_out>>

\* the finally block run on the directory t with the recorded files c: the
\* environment decides what cannot be removed
Finally(t, c) ==
    \E s \in StuckChoices(t) :
       /\ stuck' = s
       /\ tmp' \in Cleanup(t, c, s)

Advance(next) ==
    /\ pc' = next
    /\ UNCHANGED <<fail_reason, input_mp3, num_segments, i, final_audio,
                   srt_lines, created_temp_files, tmp, stuck, out_mp3, out_srt,
                   last, placed, counts, fmt_in, fmt_out>>

(* ---------------------------- before the loop -------------------------- *)
\* check_ffmpeg: ffmpeg is on PATH
CheckFfmpegOK == pc = "check_ffmpeg" /\ Advance("input")

\* check_ffmpeg: shutil.which returns None, sys.exit(1)
CheckFfmpegMissing == pc = "check_ffmpeg" /\ Abort("ffmpeg")

\* lines 118-121: nothing is left of the typed path
InputEmpty ==
    /\ pc = "input"
    /\ \E raw \in RawPaths : CleanPath(raw) = <<>>
    /\ Abort("no_input")

\* lines 122-124: the path names no file
InputNotFound ==
    /\ pc = "input"
    /\ \E raw \in RawPaths :
          /\ CleanPath(raw) # <<>>
          /\ CleanPath(raw) \notin ExistingFiles
          /\ pc' = "failed"
          /\ fail_reason' = "not_found"
          /\ input_mp3' = CleanPath(raw)
    /\ UNCHANGED <<num_segments, i, final_audio, srt_lines, created_temp_files,
                   tmp, stuck, out_mp3, out_srt, last, placed, counts, fmt_in,
                   fmt_out>>

InputOK ==
    /\ pc = "input"
    /\ \E raw \in RawPaths :
          /\ CleanPath(raw) \in ExistingFiles
          /\ input_mp3' = CleanPath(raw)
    /\ pc' = "load_model"
    /\ UNCHANGED <<fail_reason, num_segments, i, final_audio, srt_lines,
                   created_temp_files, tmp, stuck, out_mp3, out_srt, last,
                   placed, counts, fmt_in, fmt_out>>

\* line 130
LoadModelOK == pc = "load_model" /\ Advance("transcribe")

\* line 130 raises: nothing catches it, the run ends there
LoadModelFail == pc = "load_model" /\ Abort("model")

\* lines 132-134: the recognizer returns its segments
TranscribeOK ==
    /\ pc = "transcribe"
    /\ \E n \in 0..MaxSegs : num_segments' = n
    /\ pc' = "load_audio"
    /\ UNCHANGED <<fail_reason, input_mp3, i, final_audio, srt_lines,
                   created_temp_files, tmp, stuck, out_mp3, out_srt, last,
                   placed, counts, fmt_in, fmt_out>>

\* a transcription failure that is reported but does not return
TranscribeFail_NoReturn ==
    /\ pc = "transcribe"
    /\ pc' = "load_audio"
    /\ fail_reason' = "transcribe"
    /\ UNCHANGED <<input_mp3, num_segments, i, final_audio, srt_lines,
                   created_temp_files, tmp, stuck, out_mp3, out_srt, last,
                   placed, counts, fmt_in, fmt_out>>

\* lines 135-137
TranscribeFail == pc = "transcribe" /\ Abort("transcribe")

\* lines 139-152: the original decodes; the silent track and the temp
\* directory are created
LoadAudioOK ==
    /\ pc = "load_audio"
    /\ \E len \in TrackLens : final_audio' = silent(len)
    /\ srt_lines' = <<>>
    /\ tmp' = [dir |-> TRUE, files |-> {}]
    /\ created_temp_files' = <<>>
    /\ pc' = "loop"
    /\ UNCHANGED <<fail_reason, input_mp3, num_segments, i, stuck, out_mp3,
                   out_srt, last, placed, counts, fmt_in, fmt_out>>

\* lines 141-143
LoadAudioFail == pc = "load_audio" /\ Abort("decode")

\* lines 146-152 raise, before the try of line 154 is entered (the print of
\* line 152 on a closed stdout or a result without a segment list, an
\* interrupt): the error propagates and no finally block runs.  When line
\* 149 has run, the temp directory stays on disk
SetupRaises ==
    /\ pc = "load_audio"
    /\ \/ /\ UNCHANGED <<final_audio, tmp>>
       \/ /\ \E len \in TrackLens : final_audio' = silent(len)
          /\ \E dir \in BOOLEAN : tmp' = [dir |-> dir, files |-> {}]
    /\ pc' = "failed"
    /\ fail_reason' = "setup"
    /\ UNCHANGED <<input_mp3, num_segments, i, srt_lines, created_temp_files,
                   stuck, out_mp3, out_srt, last, placed, counts, fmt_in,
                   fmt_out>>

(* ---------------------------- the loop --------------------------------- *)
InLoop == pc = "loop" /\ i < num_segments

LoopEnded == pc = "loop" /\ i = num_segments

\* lines 156-160: the trimmed text is empty, continue
SkipEmpty ==
    /\ InLoop
    /\ \E seg \in Segments : strip(seg.text) = <<>>
    /\ i' = i + 1
    /\ last' = Skipped("empty", final_audio, srt_lines)
    /\ counts' = [counts EXCEPT !.empty = @ + 1]
    /\ UNCHANGED <<pc, fail_reason, input_mp3, num_segments, final_audio,
                   srt_lines, created_temp_files, tmp, stuck, out_mp3, out_srt,
                   placed, fmt_in, fmt_out>>

\* a synthesis failure that ends the run instead of skipping the segment
SynthFail_Fatal ==
    /\ InLoop
    /\ \E seg \in Segments : strip(seg.text) # <<>>
    /\ pc' = "failed"
    /\ fail_reason' = "segment"
    /\ Finally(tmp, created_temp_files)
    /\ last' = Skipped("synth_fail", final_audio, srt_lines)
    /\ counts' = [counts EXCEPT !.nonempty = @ + 1, !.failed = @ + 1]
    /\ UNCHANGED <<input_mp3, num_segments, i, final_audio, srt_lines,
                   created_temp_files, out_mp3, out_srt, placed, fmt_in,
                   fmt_out>>

\* lines 165-172: gTTS(...) or tts.save raises; save may already have opened
\* the segment file, which is then on disk but not in created_temp_files
SynthFail ==
    /\ InLoop
    /\ \E seg \in Segments : strip(seg.text) # <<>>
    /\ \E opened \in BOOLEAN :
          /\ tmp' = IF opened THEN [tmp EXCEPT !.files = @ \cup {i}] ELSE tmp
          /\ counts' = [counts EXCEPT !.nonempty = @ + 1, !.failed = @ + 1,
                                      !.made = @ + (IF opened THEN 1 ELSE 0)]
    /\ i' = i + 1
    /\ last' = Skipped("synth_fail", final_audio, srt_lines)
    /\ UNCHANGED <<pc, fail_reason, input_mp3, num_segments, final_audio,
                   srt_lines, created_temp_files, stuck, out_mp3, out_srt,
                   placed, fmt_in, fmt_out>>

\* lines 165-178: the file is saved and recorded, decoding it raises
DecodeFail ==
    /\ InLoop
    /\ \E seg \in Segments : strip(seg.text) # <<>>
    /\ tmp' = [tmp EXCEPT !.files = @ \cup {i}]
    /\ created_temp_files' = Append(created_temp_files, i)
    /\ counts' = [counts EXCEPT !.nonempty = @ + 1, !.failed = @ + 1,
                                !.made = @ + 1]
    /\ i' = i + 1
    /\ last' = Skipped("decode_fail", final_audio, srt_lines)
    /\ UNCHANGED <<pc, fail_reason, input_mp3, num_segments, final_audio,
                   srt_lines, stuck, out_mp3, out_srt, placed, fmt_in,
                   fmt_out>>

\* lines 156-193: synthesize, decode, fit, overlay, append the entry
ProcessSegment ==
    /\ InLoop
    /\ \E seg \in Segments, clip \in SynthClips :
          LET start_ms == SecToMs(seg.start)
              end_ms == SecToMs(seg.end)
              english_text == strip(seg.text)
              target_duration == TargetDuration(start_ms, end_ms)
              seg_audio == fit(clip, target_duration)
          IN  /\ english_text # <<>>
              /\ final_audio' = overlay(final_audio, seg_audio, start_ms)
              /\ srt_lines' = Append(srt_lines,
                     SrtEntry(srt_lines, i, start_ms, end_ms, english_text))
              /\ placed' = Append(placed,
                     [start_ms |-> start_ms, end_ms |-> end_ms,
                      target_duration |-> target_duration,
                      clip |-> seg_audio])
              /\ last' = [kind |-> "ok", start_ms |-> start_ms,
                          end_ms |-> end_ms,
                          target_duration |-> target_duration, raw |-> clip,
                          seg_audio |-> seg_audio, before |-> final_audio,
                          srt_before |-> srt_lines]
    /\ tmp' = [tmp EXCEPT !.files = @ \cup {i}]
    /\ created_temp_files' = Append(created_temp_files, i)
    /\ counts' = [counts EXCEPT !.nonempty = @ + 1, !.made = @ + 1]
    /\ i' = i + 1
    /\ UNCHANGED <<pc, fail_reason, input_mp3, num_segments, stuck, out_mp3,
                   out_srt, fmt_in, fmt_out>>

\* an error no except clause of the loop catches ends the iteration: the
\* finally block runs and the error propagates.  By the line that raises:
\*  - lines 156-158 (a segment without a usable start, end or text),
\*    whatever the text: nothing was made;
\*  - lines 162-172, the text not empty: the print of line 162, or gTTS/save
\*    raising what "except Exception" does not catch, or the handler's own
\*    print (line 171) raising; save may have opened the segment file, which
\*    line 169 then never recorded;
\*  - lines 174-188, the file saved and recorded: the decode, its handler's
\*    print (line 177), the fit or the overlay;
\*  - lines 191-193, an interrupt once line 188 has assigned the new track
\*    and before the entry is appended.
ProcessingRaises ==
    /\ InLoop
    /\ \/ /\ \E seg \in Segments : TRUE
          /\ Finally(tmp, created_temp_files)
          /\ UNCHANGED <<created_temp_files, counts, final_audio, placed>>
       \/ /\ \E seg \in Segments : strip(seg.text) # <<>>
          /\ \E opened \in BOOLEAN, handled \in BOOLEAN :
                /\ Finally(IF opened THEN [tmp EXCEPT !.files = @ \cup {i}]
                                     ELSE tmp,
                           created_temp_files)
                /\ counts' = [counts EXCEPT
                                !.nonempty = @ + 1,
                                !.failed = @ + (IF handled THEN 1 ELSE 0),
                                !.made = @ + (IF opened THEN 1 ELSE 0)]
          /\ UNCHANGED <<created_temp_files, final_audio, placed>>
       \/ /\ \E seg \in Segments : strip(seg.text) # <<>>
          /\ created_temp_files' = Append(created_temp_files, i)
          /\ Finally([tmp EXCEPT !.files = @ \cup {i}],
                     Append(created_temp_files, i))
          /\ \E handled \in BOOLEAN :
                counts' = [counts EXCEPT
                             !.nonempty = @ + 1,
                             !.failed = @ + (IF handled THEN 1 ELSE 0),
                             !.made = @ + 1]
          /\ UNCHANGED <<final_audio, placed>>
       \/ /\ \E seg \in Segments, clip \in SynthClips :
                LET start_ms == SecToMs(seg.start)
                    end_ms == SecToMs(seg.end)
                    target_duration == TargetDuration(start_ms, end_ms)
                    seg_audio == fit(clip, target_duration)
                IN  /\ strip(seg.text) # <<>>
                    /\ final_audio' = overlay(final_audio, seg_audio, start_ms)
                    /\ placed' = Append(placed,
                           [start_ms |-> start_ms, end_ms |-> end_ms,
                            target_duration |-> target_duration,
                            clip |-> seg_audio])
          /\ created_temp_files' = Append(created_temp_files, i)
          /\ Finally([tmp EXCEPT !.files = @ \cup {i}],
                     Append(created_temp_files, i))
          /\ counts' = [counts EXCEPT !.nonempty = @ + 1, !.made = @ + 1]
    /\ last' = Raised(final_audio, srt_lines)
    /\ pc' = "failed"
    /\ fail_reason' = "segment"
    /\ UNCHANGED <<input_mp3, num_segments, i, srt_lines, out_mp3, out_srt,
                   fmt_in, fmt_out>>

(* ---------------------------- export ----------------------------------- *)
\* line 197 succeeds
ExportAudioOK ==
    /\ LoopEnded
    /\ out_mp3' = [state |-> "written", data |-> final_audio]
    /\ counts' = [counts EXCEPT !.audio_exports = @ + 1]
    /\ pc' = "write_srt"
    /\ UNCHANGED <<fail_reason, input_mp3, num_segments, i, final_audio,
                   srt_lines, created_temp_files, tmp, stuck, out_srt, last,
                   placed, fmt_in, fmt_out>>

\* the export fails: either the print of line 196 raises and the export is
\* never attempted, or line 197 raises, the output file possibly opened;
\* cleanup, propagate
ExportAudioFail ==
    /\ LoopEnded
    /\ \/ /\ UNCHANGED <<out_mp3, counts>>
       \/ /\ \E st \in {"absent", "partial"} :
                out_mp3' = [state |-> st, data |-> <<>>]
          /\ counts' = [counts EXCEPT !.audio_exports = @ + 1]
    /\ Finally(tmp, created_temp_files)
    /\ pc' = "failed"
    /\ fail_reason' = "export_audio"
    /\ UNCHANGED <<input_mp3, num_segments, i, final_audio, srt_lines,
                   created_temp_files, out_srt, last, placed, fmt_in, fmt_out>>

\* lines 199-213: the subtitles are written, the two closing messages are
\* printed, then the cleanup
WriteSrtOK ==
    /\ pc = "write_srt"
    /\ out_srt' = [state |-> "written", data |-> Join(srt_lines, Str(<<"\n">>))]
    /\ counts' = [counts EXCEPT !.srt_writes = @ + 1]
    /\ Finally(tmp, created_temp_files)
    /\ pc' = "done"
    /\ UNCHANGED <<fail_reason, input_mp3, num_segments, i, final_audio,
                   srt_lines, created_temp_files, out_mp3, last, placed,
                   fmt_in, fmt_out>>

\* a subtitle failure that takes the audio file back
WriteSrtFail_Rollback ==
    /\ pc = "write_srt"
    /\ \E st \in {"absent", "partial"} :
          out_srt' = [state |-> st, data |-> <<>>]
    /\ out_mp3' = NoFile
    /\ counts' = [counts EXCEPT !.srt_writes = @ + 1]
    /\ Finally(tmp, created_temp_files)
    /\ pc' = "failed"
    /\ fail_reason' = "write_srt"
    /\ UNCHANGED <<input_mp3, num_segments, i, final_audio, srt_lines,
                   created_temp_files, last, placed, fmt_in, fmt_out>>

\* the subtitle write fails: either the print of line 199 raises and the
\* file is never opened, or lines 200-201 raise (open or write); cleanup,
\* propagate; the audio file written by line 197 stays
WriteSrtFail ==
    /\ pc = "write_srt"
    /\ \/ /\ UNCHANGED <<out_srt, counts>>
       \/ /\ \E st \in {"absent", "partial"} :
                out_srt' = [state |-> st, data |-> <<>>]
          /\ counts' = [counts EXCEPT !.srt_writes = @ + 1]
    /\ Finally(tmp, created_temp_files)
    /\ pc' = "failed"
    /\ fail_reason' = "write_srt"
    /\ UNCHANGED <<input_mp3, num_segments, i, final_audio, srt_lines,
                   created_temp_files, out_mp3, last, placed, fmt_in, fmt_out>>

\* lines 203-204 raise (a closing print on a closed stdout) once both files
\* are complete: cleanup, propagate; both outputs stay
DoneMessageRaises ==
    /\ pc = "write_srt"
    /\ out_srt' = [state |-> "written", data |-> Join(srt_lines, Str(<<"\n">>))]
    /\ counts' = [counts EXCEPT !.srt_writes = @ + 1]
    /\ Finally(tmp, created_temp_files)
    /\ pc' = "failed"
    /\ fail_reason' = "report"
    /\ UNCHANGED <<input_mp3, num_segments, i, final_audio, srt_lines,
                   created_temp_files, out_mp3, last, placed, fmt_in, fmt_out>>

(* ---------------------------- specifications --------------------------- *)
Next ==
    \/ CheckFfmpegOK
    \/ CheckFfmpegMissing
    \/ InputEmpty
    \/ InputNotFound
    \/ InputOK
    \/ LoadModelOK
    \/ LoadModelFail
    \/ TranscribeOK
    \/ TranscribeFail
    \/ LoadAudioOK
    \/ LoadAudioFail
    \/ SetupRaises
    \/ SkipEmpty
    \/ SynthFail
    \/ DecodeFail
    \/ ProcessSegment
    \/ ProcessingRaises
    \/ ExportAudioOK
    \/ ExportAudioFail
    \/ WriteSrtOK
    \/ WriteSrtFail
    \/ DoneMessageRaises

Spec == Init /\ [][Next]_vars

\* the formatter on its own: an argument is drawn, the function is applied
InitFmt ==
    /\ pc = "fmt"
    /\ fail_reason = "none"
    /\ input_mp3 = <<>>
    /\ num_segments = 0
    /\ i = 0
    /\ final_audio = <<>>
    /\ srt_lines = <<>>
    /\ created_temp_files = <<>>
    /\ tmp = [dir |-> FALSE, files |-> {}]
    /\ stuck = NothingStuck
    /\ out_mp3 = NoFile
    /\ out_srt = NoFile
    /\ last = NoIteration
    /\ placed = <<>>
    /\ counts = NoCounts
    /\ fmt_in \in FmtInputs
    /\ fmt_out = <<>>

FormatTimestamp ==
    /\ pc = "fmt"
    /\ fmt_out' = ms_to_srt_timestamp(fmt_in)
    /\ pc' = "fmt_done"
    /\ UNCHANGED <<fail_reason, input_mp3, num_segments, i, final_audio,
                   srt_lines, created_temp_files, tmp, stuck, out_mp3, out_srt,
                   last, placed, counts, fmt_in>>

NextFmt == FormatTimestamp

SpecFmt == InitFmt /\ [][NextFmt]_vars

(* ---------------------------- reading the outputs back ----------------- *)
RECURSIVE FindFrom(_, _, _)
FindFrom(s, c, k) == IF k > Len(s) THEN 0
                     ELSE IF s[k] = c THEN k ELSE FindFrom(s, c, k + 1)

\* position of the first c in s, 0 when there is none
Find(s, c) == FindFrom(s, c, 1)

RECURSIVE SplitFrom(_, _, _)
SplitFrom(s, c, k) ==
    LET j == FindFrom(s, c, k)
    IN  IF j = 0 THEN <<SubSeq(s, k, Len(s))>>
        ELSE <<SubSeq(s, k, j - 1)>> \o SplitFrom(s, c, j + 1)

\* the pieces of s between the occurrences of c
Split(s, c) == SplitFrom(s, c, 1)

IsDigits(s) == \A k \in 1..Len(s) : s[k] \in Range(DigitChars)

DigitValue(ch) == ch - ord["0"]

RECURSIVE ParseFrom(_, _, _)
ParseFrom(s, k, acc) ==
    IF k > Len(s) THEN acc
    ELSE ParseFrom(s, k + 1, acc * 10 + DigitValue(s[k]))

\* the number a string of decimal digits denotes
ParseInt(s) == ParseFrom(s, 1, 0)

\* the shape H+:MM:SS,mmm
WellFormedTimestamp(s) ==
    LET a == Split(s, ord[":"])
    IN  /\ Len(a) = 3
        /\ LET b == Split(a[3], ord[","])
           IN  /\ Len(b) = 2
               /\ IsDigits(a[1]) /\ IsDigits(a[2])
               /\ IsDigits(b[1]) /\ IsDigits(b[2])
               /\ Len(a[1]) >= 2
               /\ (Len(a[1]) > 2 => ParseInt(a[1]) > 99)
               /\ (ParseInt(a[1]) > 99 => Len(a[1]) > 2)
               /\ Len(a[2]) = 2 /\ ParseInt(a[2]) < 60
               /\ Len(b[1]) = 2 /\ ParseInt(b[1]) < 60
               /\ Len(b[2]) = 3

\* what one unit of each field of a timestamp is worth, in ms
FieldWeights == <<3600000, 60000, 1000, 1>>

RECURSIVE ScanTimestamp(_, _, _, _, _)
\* reads s from position k on: acc is the number read so far in field f,
\* total the worth of the fields already closed by a separator
ScanTimestamp(s, k, f, acc, total) ==
    IF k > Len(s) THEN total + acc * FieldWeights[f]
    ELSE IF s[k] \in {ord[":"], ord[","]}
         THEN ScanTimestamp(s, k + 1, f + 1, 0, total + acc * FieldWeights[f])
         ELSE ScanTimestamp(s, k + 1, f, acc * 10 + DigitValue(s[k]), total)

\* hours*3600000 + minutes*60000 + seconds*1000 + milliseconds
srt_timestamp_to_ms(s) == ScanTimestamp(s, 1, 1, 0, 0)

EntryIndex(e) == ParseInt(Split(e, ord["\n"])[1])

\* the start and end of an entry's time line, parsed back to ms
EntryTimes(e) ==
    LET t == Split(Split(e, ord["\n"])[2], ord[" "])
    IN  IF Len(t) = 3
        THEN [start |-> srt_timestamp_to_ms(t[1]),
              end |-> srt_timestamp_to_ms(t[3])]
        ELSE [start |-> -1, end |-> -1]

\* entry k ends no later than entry k + 1 starts
EntriesOrdered(k) ==
    EntryTimes(srt_lines[k]).end <= EntryTimes(srt_lines[k + 1]).start

\* the track positions (1-based) of a window [start_ms, start_ms + d)
Window(start_ms, d) == (start_ms + 1)..(start_ms + d)

PlacedWindow(k) == Window(placed[k].start_ms, placed[k].target_duration)

\* the end of the loop: every segment consumed, the export not yet begun
\* (srt_lines and final_audio do not change from there on)
LoopOver == LoopEnded

SkipKinds == {"empty", "synth_fail", "decode_fail"}

PreReasons == {"ffmpeg", "no_input", "not_found", "model", "transcribe",
               "decode"}

(* ---------------------------- claims ----------------------------------- *)
\* C1: the clip handed to overlay is exactly target_duration =
\* max(1, end_ms - start_ms) long: a longer synthesized clip is cut to its
\* first target_duration ms, a shorter one gets exactly the missing ms of
\* trailing silence, an equal one is unchanged.
C1_FittedLength ==
    last.kind = "ok" =>
        LET t == Max(1, last.end_ms - last.start_ms)
            c == last.raw
            f == last.seg_audio
        IN  /\ last.target_duration = t
            /\ Len(f) = t
            /\ \A k \in 1..Min(t, Len(c)) : f[k] = c[k]
            /\ \A k \in (Len(c) + 1)..t : f[k] = 0
            /\ (Len(c) = t => f = c)

C1_Witness ==
    /\ last.kind = "ok"
    /\ Len(last.raw) > last.target_duration

\* C9: ms_to_srt_timestamp(ms) has the form H+:MM:SS,mmm (hours 2 digits, more
\* only above 99; minutes and seconds 2 digits and below 60; milliseconds 3
\* digits) and parses back to ms.
C9_TimestampRoundTrip ==
    pc = "fmt_done" =>
        /\ WellFormedTimestamp(fmt_out)
        /\ srt_timestamp_to_ms(fmt_out) = fmt_in

C9_Witness ==
    /\ pc = "fmt_done"
    /\ fmt_in >= 100 * 3600000
    /\ Len(fmt_out) = 13
    /\ fmt_in % 3600000 # 0

\* C2 (as first stated): after a segment is processed its whole window lies
\* in the track and holds exactly the fitted clip, the rest of the track
\* being unchanged.
C2_WindowHoldsClip ==
    last.kind = "ok" =>
        /\ Len(final_audio) = Len(last.before)
        /\ \A p \in Window(last.start_ms, last.target_duration) :
              /\ p <= Len(final_audio)
              /\ final_audio[p] = last.seg_audio[p - last.start_ms]
        /\ \A p \in 1..Len(final_audio) :
              p \notin Window(last.start_ms, last.target_duration)
                 => final_audio[p] = last.before[p]

\* C2 (amended): after a segment is processed the track has the length it
\* had; every position of the segment's window that lies in the track holds
\* the clamped sum of what it held before and the fitted clip's sample (the
\* fitted clip itself where the track was silent), the part of the window
\* past the track's end is dropped, and every position outside the window
\* holds what it held before; a segment whose window overlaps no other
\* processed segment's window has its fitted clip, unmixed, in its window.
C2_WindowMixedFrameKept ==
    /\ last.kind = "ok" =>
          /\ Len(final_audio) = Len(last.before)
          /\ \A p \in 1..Len(final_audio) :
                IF p \in Window(last.start_ms, last.target_duration)
                THEN /\ final_audio[p] =
                          Max(SampleMin, Min(SampleMax,
                              last.before[p]
                                + last.seg_audio[p - last.start_ms]))
                     /\ (last.before[p] = 0 =>
                            final_audio[p] = last.seg_audio[p - last.start_ms])
                ELSE final_audio[p] = last.before[p]
    /\ pc \in {"loop", "write_srt", "done"} =>
          \A k \in DOMAIN placed :
             (\A j \in DOMAIN placed :
                 j # k => PlacedWindow(j) \cap PlacedWindow(k) = {})
             => \A p \in PlacedWindow(k) \cap (1..Len(final_audio)) :
                   final_audio[p] = placed[k].clip[p - placed[k].start_ms]

C2_Witness ==
    /\ last.kind = "ok"
    /\ Len(placed) = 2
    /\ PlacedWindow(1) \cap PlacedWindow(2) = {}
    /\ PlacedWindow(1) \cup PlacedWindow(2) \subseteq 1..Len(final_audio)
    /\ \A p \in PlacedWindow(1) \cup PlacedWindow(2) : final_audio[p] # 0

RECURSIVE MixAt(_, _)
\* the clamped sum, in processing order, of the samples the clips of pl put
\* on track position p
MixAt(pl, p) ==
    IF pl = <<>> THEN 0
    ELSE LET c == pl[Len(pl)]
             under == MixAt(SubSeq(pl, 1, Len(pl) - 1), p)
         IN  IF p \in Window(c.start_ms, c.target_duration)
             THEN Max(SampleMin, Min(SampleMax,
                      under + c.clip[p - c.start_ms]))
             ELSE under

\* C6 (as first stated): where the windows of two processed segments
\* overlap, the track holds the later segment's fitted clip only.
C6_LaterOverwrites ==
    \A j \in DOMAIN placed, k \in DOMAIN placed :
       j < k =>
          \A p \in PlacedWindow(j) \cap PlacedWindow(k)
                     \cap (1..Len(final_audio)) :
             (\A m \in DOMAIN placed : m > k => p \notin PlacedWindow(m))
                => final_audio[p] = placed[k].clip[p - placed[k].start_ms]

\* C6 (amended): where the windows of processed segments overlap, the overlay
\* mixes: every track position holds the sum, clamped to the 16-bit sample
\* range, of the samples of all fitted clips whose window covers it, not the
\* later clip alone.
C6_OverlapMixes ==
    \A p \in 1..Len(final_audio) : final_audio[p] = MixAt(placed, p)

C6_Witness ==
    /\ Len(placed) >= 2
    /\ \E p \in PlacedWindow(1) \cap PlacedWindow(2) \cap (1..Len(final_audio)) :
          /\ placed[1].clip[p - placed[1].start_ms] # 0
          /\ final_audio[p] # placed[2].clip[p - placed[2].start_ms]
          /\ final_audio[p] < SampleMax

\* a loop iteration that skips its segment
IterationSkips ==
    /\ pc = "loop"
    /\ last'.kind \in SkipKinds
    /\ (counts'.empty # counts.empty \/ counts'.failed # counts.failed)

\* C3: an iteration that skips its segment (empty trimmed text, synthesis
\* failure, undecodable clip) changes neither the output track nor the
\* subtitle list nor the output files, is not fatal and moves on to the next
\* segment; so every segment that is not skipped is overlaid and recorded,
\* also after a skip.
C3_SkipIsNoOp ==
    /\ [][IterationSkips =>
             /\ final_audio' = final_audio
             /\ srt_lines' = srt_lines
             /\ placed' = placed
             /\ out_mp3' = out_mp3 /\ out_srt' = out_srt
             /\ last'.before = final_audio /\ last'.srt_before = srt_lines
             /\ pc' = "loop" /\ fail_reason' = "none"
             /\ i' = i + 1]_vars
    /\ [](pc \in {"loop", "write_srt", "done"} =>
             /\ i <= num_segments
             /\ i = counts.empty + counts.failed + Len(srt_lines)
             /\ Len(placed) = Len(srt_lines))

C3_Witness ==
    /\ LoopOver
    /\ num_segments = 2
    /\ counts.failed = 1
    /\ last.kind = "ok"
    /\ last.srt_before = <<>>
    /\ Len(srt_lines) = 1
    /\ \E p \in 1..Len(final_audio) : final_audio[p] = 0

\* C4 (as first stated): at the end of the loop the subtitle indices are
\* 1..K in order, K the number of segments with non-empty trimmed text.
C4_IndicesCountNonEmpty ==
    LoopOver =>
        /\ Len(srt_lines) = counts.nonempty
        /\ \A k \in DOMAIN srt_lines : EntryIndex(srt_lines[k]) = k

\* C4 (amended): at the end of the loop the subtitle indices are 1..K in
\* append order with no gaps and no repeats, K being the number of segments
\* with non-empty trimmed text whose synthesis and decoding both succeeded
\* (a segment skipped for a synthesis or decode failure gets no entry).
C4_IndicesCountProcessed ==
    LoopOver =>
        /\ Len(srt_lines) = counts.nonempty - counts.failed
        /\ Len(srt_lines) = Len(placed)
        /\ \A k \in DOMAIN srt_lines : EntryIndex(srt_lines[k]) = k

C4_Witness ==
    /\ LoopOver
    /\ counts.failed = 1
    /\ counts.nonempty = 2
    /\ last.kind = "ok"
    /\ Len(srt_lines) = 1
    /\ EntryIndex(srt_lines[1]) = 1

\* C5 (as first stated): for any segment list, every entry has start <= end
\* and the range of its clip's window [start_ms, start_ms + target_duration),
\* and each entry ends no later than the next one starts.
C5_RangesMatchAndOrdered ==
    LoopOver =>
        /\ Len(srt_lines) = Len(placed)
        /\ \A k \in DOMAIN srt_lines :
            \A t \in {EntryTimes(srt_lines[k])} :
              /\ t.start <= t.end
              /\ t.start = placed[k].start_ms
              /\ t.end
                    = placed[k].start_ms + placed[k].target_duration
        /\ \A k \in 1..(Len(srt_lines) - 1) :
              EntriesOrdered(k)

\* C5 (amended): every entry carries the start_ms and end_ms of its segment,
\* in processing order, so it has start <= end exactly when its segment's
\* end_ms is not below its start_ms; its range is the clip's window
\* [start_ms, start_ms + target_duration) when end_ms > start_ms (otherwise
\* the window is the single ms at start_ms); and two consecutive entries are
\* ordered and non-overlapping whenever their segments are, the code neither
\* sorting nor trimming nor checking what the recognizer returns.
C5_RangesFollowSegments ==
    LoopOver =>
        /\ Len(srt_lines) = Len(placed)
        /\ \A k \in DOMAIN srt_lines :
            \A t \in {EntryTimes(srt_lines[k])} :
              /\ t.start = placed[k].start_ms
              /\ t.end = placed[k].end_ms
              /\ (t.start <= t.end <=>
                     placed[k].start_ms <= placed[k].end_ms)
              /\ (placed[k].end_ms > placed[k].start_ms =>
                     t.end
                        = placed[k].start_ms + placed[k].target_duration)
              /\ (placed[k].end_ms <= placed[k].start_ms =>
                     placed[k].target_duration = 1)
        /\ \A k \in 1..(Len(srt_lines) - 1) :
              placed[k].end_ms <= placed[k + 1].start_ms
                 => EntriesOrdered(k)

C5_Witness ==
    /\ LoopOver
    /\ Len(srt_lines) = 2
    /\ placed[1].start_ms < placed[1].end_ms
    /\ placed[1].end_ms <= placed[2].start_ms
    /\ placed[2].start_ms < placed[2].end_ms
    /\ EntriesOrdered(1)

\* C7: however the run ends, by completion, by an error raised in the loop
\* or the export, or by any other exit path, no temporary artifact it created
\* is left: the segment files and the temporary directory are gone.
C7_TempReleased ==
    pc \in {"done", "failed"} => tmp.dir = FALSE /\ tmp.files = {}

\* C8: a precondition error or an irrecoverable pipeline error ends the run
\* as failed with no segment processed, no temporary artifact made and
\* neither output file written.
C8_EarlyErrorNoOutput ==
    fail_reason \in PreReasons =>
        /\ pc = "failed"
        /\ i = 0 /\ placed = <<>> /\ srt_lines = <<>> /\ last = NoIteration
        /\ final_audio = <<>>
        /\ counts = NoCounts
        /\ tmp.dir = FALSE /\ tmp.files = {} /\ stuck = NothingStuck
        /\ out_mp3.state = "absent" /\ out_srt.state = "absent"

C8_Witness ==
    /\ pc = "failed"
    /\ fail_reason = "transcribe"
    /\ input_mp3 \in ExistingFiles

\* C10: each output is exported at most once and only after the loop has
\* handled its last segment; the track and the subtitle list do not change
\* once the audio export has been attempted; the run is done only with both
\* files written from the final track and entries; a failed export ends the
\* run as failed, the audio file already written staying in place.
C10_ExportOnceAtEnd ==
    /\ [](/\ counts.audio_exports <= 1 /\ counts.srt_writes <= 1
          /\ counts.srt_writes <= counts.audio_exports
          /\ (counts.audio_exports > 0 =>
                 i = num_segments /\ pc \in {"write_srt", "done", "failed"})
          /\ (pc = "done" =>
                 /\ out_mp3 = [state |-> "written", data |-> final_audio]
                 /\ out_srt.state = "written"
                 /\ out_srt.data = Join(srt_lines, Str(<<"\n">>))
                 /\ fail_reason = "none")
          /\ (pc = "write_srt" => out_mp3.state = "written")
          /\ (fail_reason = "export_audio" =>
                 pc = "failed" /\ out_srt.state = "absent"
                   /\ counts.srt_writes = 0)
          /\ (fail_reason = "write_srt" =>
                 /\ pc = "failed"
                 /\ out_mp3 = [state |-> "written", data |-> final_audio]
                 /\ out_srt.state # "written")
          /\ (fail_reason = "report" =>
                 /\ pc = "failed"
                 /\ out_mp3 = [state |-> "written", data |-> final_audio]
                 /\ out_srt.state = "written"))
    /\ [][counts.audio_exports > 0 =>
             /\ final_audio' = final_audio
             /\ srt_lines' = srt_lines
             /\ counts'.audio_exports = counts.audio_exports
             /\ (out_mp3.state = "written" => out_mp3' = out_mp3)]_vars

C10_Witness ==
    /\ pc = "failed"
    /\ fail_reason = "write_srt"
    /\ out_mp3.state = "written"
    /\ Len(srt_lines) > 0
    /\ counts.audio_exports = 1 /\ counts.srt_writes = 1

====
